---- MODULE Spec2Model ----
(***************************************************************************)
(* Model of the windowed trade fetch of deltaconv/crawler.py:              *)
(* BinanceConnection.trades (lines 248-287), its collaborator _get_trades  *)
(* (lines 170-211, seen from trades() as a call that either returns a list *)
(* of records or raises), and the caller main (lines 329-349).             *)
(*                                                                         *)
(* Time is a naive datetime, modelled as an integer number of ticks since  *)
(* an epoch midnight; a calendar day is DayLen ticks.                      *)
(***************************************************************************)
EXTENDS Integers, Sequences, FiniteSets, TLC

\* ---------------------------------------------------------------- bounds
DayLen == 3          \* ticks per calendar day (resolution of the clock)
StartDays == 2       \* start is drawn from the first StartDays days
MaxEndDays == 60     \* end is drawn from the first MaxEndDays days
MaxLen == 2          \* longest record list one _get_trades call returns

\* ------------------------------------------------------- program constants
WindowDays == 28     \* datetime.timedelta(days=28)

Window == WindowDays * DayLen

Records == {"a", "b"}
Errors == {"ConnectionError", "JSONDecodeError"}

Times == 0 .. (MaxEndDays * DayLen)
StartTimes == 0 .. (StartDays * DayLen - 1)

Unset == -1

RECURSIVE SeqsUpTo(_)
SeqsUpTo(n) ==
    IF n = 0 THEN {<< >>}
    ELSE LET S == SeqsUpTo(n - 1)
         IN S \cup {Append(s, r) : s \in {t \in S : Len(t) = n - 1}, r \in Records}

Results == SeqsUpTo(MaxLen)

VARIABLES start, end, start_interval, end_interval, trades, calls, responses,
          pc, error, result, output

vars == <<start, end, start_interval, end_interval, trades, calls, responses,
          pc, error, result, output>>

\* ---------------------------------------------------------- pure helpers

\* no normalisation: the first window starts at start itself
Normalize_Identity(t) == t

\* start.replace(second=0, minute=0, hour=0, microsecond=0)
Normalize(t) == t - (t % DayLen)

\* a calendar month instead of 28 days
NextEnd_Month(si) == si + 31 * DayLen

\* start_interval + datetime.timedelta(days=28)
NextEnd(si) == si + Window

\* the next window starts one tick after the previous one ended
NextStart_Gap(si, ei) == ei + 1

\* the window start is not moved
NextStart_Stall(si, ei) == si

\* start_interval = end_interval
NextStart(si, ei) == ei

\* the last call asks for the whole 28-day window
FinalEnd_Window(ei, e) == ei

\* the end argument of the call after the loop: _get_trades(start_interval, end)
FinalEnd(ei, e) == e

\* the loop also runs when the window ends exactly at end
LoopCond_Inclusive(ei, e) == ei <= e

\* while end_interval < end
LoopCond(ei, e) == ei < e

\* records already collected are skipped
Extend_Dedup(tr, r) ==
    tr \o SelectSeq(r, LAMBDA x : \A i \in 1 .. Len(tr) : tr[i] # x)

\* trades.extend(result)
Extend(tr, r) == tr \o r

\* the arguments of one _get_trades call, and the line that issued it
Call(s, e, k) == [s |-> s, e |-> e, kind |-> k]

\* ------------------------------------------------------------------ Init
Init ==
    /\ start \in StartTimes
    /\ end \in Times
    /\ start_interval = Unset
    /\ end_interval = Unset
    /\ trades = << >>
    /\ calls = << >>
    /\ responses = << >>
    /\ pc = "init"
    /\ error = "none"
    /\ result = << >>
    /\ output = << >>

\* --------------------------------------------------------------- actions

\* trades(): lines 264-272, up to the first evaluation of the while test
Begin ==
    /\ pc = "init"
    /\ start_interval' = Normalize(start)
    /\ end_interval' = NextEnd(Normalize(start))
    /\ trades' = << >>
    /\ pc' = "loop"
    /\ UNCHANGED <<start, end, calls, responses, error, result, output>>

\* one iteration of the while loop whose _get_trades call returns
LoopFetch ==
    /\ pc = "loop"
    /\ LoopCond(end_interval, end)
    /\ \E r \in Results :
          /\ calls' = Append(calls, Call(start_interval, end_interval, "loop"))
          /\ responses' = Append(responses, r)
          /\ trades' = Extend(trades, r)
    /\ start_interval' = NextStart(start_interval, end_interval)
    /\ end_interval' = NextEnd(NextStart(start_interval, end_interval))
    /\ UNCHANGED <<start, end, pc, error, result, output>>

\* the error of a loop window is swallowed and the loop goes on
LoopFetchRaise_Swallowed ==
    /\ pc = "loop"
    /\ LoopCond(end_interval, end)
    /\ \E x \in Errors :
          /\ calls' = Append(calls, Call(start_interval, end_interval, "loop"))
          /\ error' = x
    /\ start_interval' = NextStart(start_interval, end_interval)
    /\ end_interval' = NextEnd(NextStart(start_interval, end_interval))
    /\ UNCHANGED <<start, end, trades, responses, pc, result, output>>

\* one iteration of the while loop whose _get_trades call raises
LoopFetchRaise ==
    /\ pc = "loop"
    /\ LoopCond(end_interval, end)
    /\ \E x \in Errors :
          /\ calls' = Append(calls, Call(start_interval, end_interval, "loop"))
          /\ error' = x
    /\ pc' = "raised"
    /\ UNCHANGED <<start, end, start_interval, end_interval, trades, responses,
                   result, output>>

\* the call after the loop returns; trades() returns the list
FinalFetch ==
    /\ pc = "loop"
    /\ ~LoopCond(end_interval, end)
    /\ \E r \in Results :
          /\ calls' = Append(calls, Call(start_interval, FinalEnd(end_interval, end), "final"))
          /\ responses' = Append(responses, r)
          /\ trades' = Extend(trades, r)
          /\ result' = <<Extend(trades, r)>>
    /\ pc' = "returned"
    /\ UNCHANGED <<start, end, start_interval, end_interval, error, output>>

\* the call after the loop raises
FinalFetchRaise ==
    /\ pc = "loop"
    /\ ~LoopCond(end_interval, end)
    /\ \E x \in Errors :
          /\ calls' = Append(calls, Call(start_interval, FinalEnd(end_interval, end), "final"))
          /\ error' = x
    /\ pc' = "raised"
    /\ UNCHANGED <<start, end, start_interval, end_interval, trades, responses,
                   result, output>>

\* main(): if result: write the csv file
MainWrite ==
    /\ pc = "returned"
    /\ output' = IF result[1] # << >> THEN <<result[1]>> ELSE output
    /\ pc' = "exit"
    /\ UNCHANGED <<start, end, start_interval, end_interval, trades, calls,
                   responses, error, result>>

Next ==
    \/ Begin
    \/ LoopFetch
    \/ LoopFetchRaise
    \/ FinalFetch
    \/ FinalFetchRaise
    \/ MainWrite

Spec == Init /\ [][Next]_vars

\* the program is sequential: a step that can be taken is taken
FairSpec == Spec /\ WF_vars(Next)

\* ------------------------------------------------- vocabulary of the claims

\* the beginning of start's calendar day
DayStart == (start \div DayLen) * DayLen

\* trades() has returned its list (and main may have gone on)
Completed == pc \in {"returned", "exit"}

\* trades() is over: it returned or an error left it
Over == pc \in {"returned", "exit", "raised"}

\* a run never issues more than n calls, and one that returns issued n
IssuesExactly(n) == /\ Len(calls) <= n
                    /\ Completed => Len(calls) = n

\* the boundaries passed to successive calls are strictly increasing
StrictlyIncreasing ==
    /\ \A i \in 1 .. Len(calls) : calls[i].s < calls[i].e
    /\ \A i \in 1 .. Len(calls) : \A j \in 1 .. Len(calls) :
          i < j => (calls[i].s < calls[j].s /\ calls[i].e < calls[j].e)

\* ------------------------------------------------------------------ C1

\* C1 as stated: whenever 0 <= end - start <= 28 days, a completed run has
\* issued exactly one _get_trades call, and its arguments are (start, end).
C1_AsStated ==
    (Completed /\ 0 <= end - start /\ end - start <= Window)
        => /\ Len(calls) = 1
           /\ calls[1].s = start
           /\ calls[1].e = end

\* C1 amended: whenever start <= end and end is at most 28 days after the
\* midnight of start's calendar day, trades() issues exactly one _get_trades
\* call, whose start argument is that midnight and whose end argument is end.
C1_SingleCall ==
    (pc # "init" /\ start <= end /\ end - DayStart <= Window)
        => /\ IssuesExactly(1)
           /\ \A i \in 1 .. Len(calls) :
                 calls[i].s = DayStart /\ calls[i].e = end

\* a run over exactly 28 days from midnight, started off midnight
C1_Witness ==
    /\ pc = "exit"
    /\ start # DayStart
    /\ end - DayStart = Window
    /\ Len(calls) = 1
    /\ calls[1] = Call(DayStart, end, "final")

\* ------------------------------------------------------------------ C2

\* C2 as stated: when end - start is N full 28-day periods plus a non-zero
\* remainder, a completed run has issued exactly N+1 calls with strictly
\* increasing boundaries, the last of which ends at end.
C2_AsStated ==
    (Completed /\ end - start > 0 /\ (end - start) % Window # 0)
        => /\ Len(calls) = ((end - start) \div Window) + 1
           /\ StrictlyIncreasing
           /\ calls[Len(calls)].e = end

\* C2 amended: when start <= end and end minus the midnight of start's
\* calendar day is N full 28-day periods plus a non-zero remainder, trades()
\* issues exactly N+1 calls, their boundaries strictly increase, and the
\* last call ends at end exactly.
C2_WindowCount ==
    (pc # "init" /\ start <= end /\ (end - DayStart) % Window # 0)
        => /\ IssuesExactly(((end - DayStart) \div Window) + 1)
           /\ StrictlyIncreasing
           /\ Completed => calls[Len(calls)].e = end

\* two full periods and a remainder, started off midnight: three calls
C2_Witness ==
    /\ pc = "exit"
    /\ start # DayStart
    /\ (end - DayStart) \div Window = 2
    /\ (end - DayStart) % Window # 0
    /\ Len(calls) = 3
    /\ calls[3].e = end
\* ------------------------------------------------------------------ C3

\* C3: once a _get_trades call has raised, trades() issues no further call,
\* returns nothing (no list reaches main and no file is written, although
\* records of earlier windows were accumulated), and the error that left the
\* call is the error that leaves trades().
C3_FailFast ==
    /\ [](error # "none" =>
             /\ pc = "raised"
             /\ result = << >>
             /\ output = << >>
             /\ Len(responses) = Len(calls) - 1)
    /\ [][error # "none" =>
             /\ calls' = calls
             /\ error' = error
             /\ result' = << >>
             /\ output' = << >>]_vars

\* the second window raised after the first had delivered records
C3_Witness ==
    /\ pc = "raised"
    /\ error = "JSONDecodeError"
    /\ Len(calls) = 2
    /\ trades # << >>
    /\ result = << >>
    /\ output = << >>

\* ------------------------------------------------------------------ C4

RECURSIVE Flatten(_)
Flatten(ss) == IF ss = << >> THEN << >> ELSE Head(ss) \o Flatten(Tail(ss))

IsPrefix(a, b) == /\ Len(a) <= Len(b)
                  /\ \A i \in 1 .. Len(a) : a[i] = b[i]

\* C4: the accumulated list is at every point the concatenation, in request
\* order, of the lists the calls returned so far; the list trades() returns
\* is the concatenation of all of them (nothing reordered, dropped or
\* deduplicated); and every step leaves the old accumulated list a prefix
\* of the new one.
C4_Concatenation ==
    /\ [](trades = Flatten(responses))
    /\ [](Completed => result = <<Flatten(responses)>>)
    /\ [][IsPrefix(trades, trades')]_vars

\* two windows returned the same records, in different orders
C4_Witness ==
    /\ pc = "exit"
    /\ responses = << <<"b", "a">>, <<"a", "b">> >>
    /\ result = << <<"b", "a", "a", "b">> >>
    /\ output = result

\* ------------------------------------------------------------------ C5

\* C5: when start == end, trades() issues exactly one call, the one after
\* the loop (no call comes from the loop body), and its window runs from the
\* midnight of that day to end: it is empty when start is at midnight and
\* shorter than one day otherwise.
C5_StartEqualsEnd ==
    (pc # "init" /\ start = end)
        => /\ IssuesExactly(1)
           /\ \A i \in 1 .. Len(calls) :
                 /\ calls[i].kind = "final"
                 /\ calls[i].s = DayStart
                 /\ calls[i].e = end
                 /\ 0 <= calls[i].e - calls[i].s
                 /\ calls[i].e - calls[i].s < DayLen
                 /\ (start = DayStart => calls[i].e = calls[i].s)

\* start == end off midnight: one call with a window shorter than a day
C5_Witness ==
    /\ pc = "exit"
    /\ start = end
    /\ start # DayStart
    /\ calls = <<Call(DayStart, end, "final")>>

\* ------------------------------------------------------------------ C6

\* C6: when start <= end, the first call starts at the midnight of start's
\* calendar day, every later call starts where the previous one ended, no
\* window has negative length, and the last call of a run that returns ends
\* at end.
C6_Contiguous ==
    (pc # "init" /\ start <= end)
        => /\ \A i \in 1 .. Len(calls) :
                 /\ calls[i].s <= calls[i].e
                 /\ i = 1 => calls[i].s = DayStart
                 /\ i > 1 => calls[i].s = calls[i - 1].e
           /\ Completed => calls[Len(calls)].e = end

\* three contiguous windows, started off midnight
C6_Witness ==
    /\ pc = "exit"
    /\ start # DayStart
    /\ Len(calls) = 3
    /\ calls[2].s = calls[1].e
    /\ calls[3].s = calls[2].e
    /\ calls[3].e = end

\* ------------------------------------------------------------------ C7

\* the longest range one request may ask for: 28 days
QueryCap == 28 * DayLen

\* C7: when start <= end, every call that comes from the loop asks for
\* exactly 28 days and the call after the loop for at most 28 days.
C7_WindowCap ==
    (pc # "init" /\ start <= end)
        => \A i \in 1 .. Len(calls) :
              /\ calls[i].e - calls[i].s <= QueryCap
              /\ calls[i].kind = "loop" => calls[i].e - calls[i].s = QueryCap

\* the last window is exactly 28 days long, after one loop window
C7_Witness ==
    /\ pc = "exit"
    /\ start <= end
    /\ Len(calls) = 2
    /\ calls[1].e - calls[1].s = QueryCap
    /\ calls[2].kind = "final"
    /\ calls[2].e - calls[2].s = QueryCap

\* ------------------------------------------------------------------ C8

\* C8 as stated: when start > end, a completed run has issued exactly one
\* call, the one after the loop, and its start argument is later than its
\* end argument.
C8_AsStated ==
    (Completed /\ start > end)
        => /\ Len(calls) = 1
           /\ calls[1].kind = "final"
           /\ calls[1].s > calls[1].e

\* C8 amended: when start > end, the loop body never runs and trades()
\* issues exactly one call, the one after the loop, for the window from the
\* midnight of start's calendar day to end; that window has a negative
\* duration exactly when end is earlier than that midnight.
C8_StartAfterEnd ==
    (pc # "init" /\ start > end)
        => /\ IssuesExactly(1)
           /\ \A i \in 1 .. Len(calls) :
                 /\ calls[i].kind = "final"
                 /\ calls[i].s = DayStart
                 /\ calls[i].e = end
                 /\ (calls[i].s > calls[i].e) <=> (end < DayStart)

\* end on the day before start: the only call has a negative window
C8_Witness ==
    /\ pc = "exit"
    /\ start > end
    /\ start # DayStart
    /\ end < DayStart
    /\ Len(calls) = 1
    /\ calls[1].s > calls[1].e

\* ------------------------------------------------------------------ C9

\* the states of the fetcher, read off the window
Advancing == pc # "init" /\ end_interval < end
Final == pc # "init" /\ ~(end_interval < end)

\* C9: a fetch issued while ADVANCING is a loop fetch for the current 28-day
\* window and one issued while FINAL is the fetch for [window start, end],
\* after which the run is over; FINAL is never left; no fetch follows the
\* end of the run; a run that returns is in FINAL and issued exactly one
\* FINAL fetch, its last; and the first call enters FINAL directly exactly
\* when the first 28-day window reaches end.
C9_TwoStates ==
    /\ [][(Advancing /\ calls' # calls) =>
             calls' = Append(calls, Call(start_interval, end_interval, "loop"))]_vars
    /\ [][(Final /\ calls' # calls) =>
             /\ calls' = Append(calls, Call(start_interval, end, "final"))
             /\ pc' \in {"returned", "raised"}]_vars
    /\ [][Final => Final']_vars
    /\ [][Over => calls' = calls]_vars
    /\ [](Completed =>
             /\ Final
             /\ Cardinality({i \in 1 .. Len(calls) : calls[i].kind = "final"}) = 1
             /\ calls[Len(calls)].kind = "final")
    /\ [][(pc = "init" /\ pc' # "init") =>
             /\ Final' <=> (DayStart + QueryCap >= end)
             /\ calls' = << >>]_vars

\* ADVANCING once, then FINAL, where the window reached end exactly
C9_Witness ==
    /\ pc = "exit"
    /\ Final
    /\ end_interval = end
    /\ Len(calls) = 2
    /\ calls[1].kind = "loop"
    /\ calls[2] = Call(start_interval, end, "final")

\* ------------------------------------------------------------------ C10

\* C10: every run ends (trades() returns, unless a call raised); each loop
\* iteration moves window start and window end forward by exactly 28 days;
\* the i-th loop fetch happens only if i 28-day steps from the normalized
\* start still fall before end; and no window is fetched twice.
C10_Termination ==
    /\ <>Over
    /\ [][(pc = "loop" /\ pc' = "loop") =>
             /\ start_interval' = start_interval + QueryCap
             /\ end_interval' = end_interval + QueryCap]_vars
    /\ [](\A i \in 1 .. Len(calls) :
             calls[i].kind = "loop" => DayStart + i * QueryCap < end)
    /\ [](\A i \in 1 .. Len(calls) : \A j \in 1 .. Len(calls) :
             i # j => calls[i].s # calls[j].s)

\* a run that went twice round the loop and returned
C10_Witness ==
    /\ pc = "returned"
    /\ Len(calls) = 3
    /\ calls[2].kind = "loop"
    /\ start_interval = DayStart + 2 * QueryCap

====
